---- MODULE Spec2Model ----
(***************************************************************************)
(* A model of the DocuQuery backend (src/backend/app.py): the sliding      *)
(* window rate limiter, the upload handler and the document registry, the  *)
(* TXT extractor, keyword retrieval and the two streaming generators.      *)
(* Texts are TLA+ strings; TLC evaluates Len, SubSeq and \o on them.       *)
(***************************************************************************)
EXTENDS Integers, Sequences, FiniteSets, TLC

VARIABLES
    now,               \* the wall clock, in whole seconds
    ticks,             \* how many times the clock has advanced
    rate_limit_store,  \* identifier -> list of accepted timestamps (app.py:27)
    calls,             \* history: every check_rate_limit call, in order
    threads,           \* concurrent check_rate_limit calls: their position and locals
    text,              \* extract_text_from_txt: the file's text
    text_data,         \* extract_text_from_txt: its result, once it has run
    extracted,         \* whether extract_text_from_txt has run
    question,          \* find_relevant_chunks_fast: the question
    chunks,            \* find_relevant_chunks_fast: the candidate chunks
    relevant_chunks,   \* find_relevant_chunks_fast: its result, once it has run
    retrieved,         \* whether find_relevant_chunks_fast has run
    documents_store,   \* the registry: (doc_id, document) entries in insertion order (app.py:26)
    uploads,           \* history: the successful uploads, in order
    response,          \* the last response a handler returned
    gen,               \* the streaming generator: its position and locals
    events,            \* the server-sent events the generator has yielded, in order
    arrived            \* history: the fragments the chat service has delivered, in order

rateVars == <<now, ticks, rate_limit_store, calls, threads>>
txtVars == <<text, text_data, extracted>>
frcVars == <<question, chunks, relevant_chunks, retrieved>>
docVars == <<documents_store, uploads, response>>
genVars == <<gen, events, arrived>>
vars == <<rateVars, txtVars, frcVars, docVars, genVars>>

\* The parts of the state a run does not use.
NoRate ==
    /\ now = 0 /\ ticks = 0 /\ calls = << >> /\ threads = << >>
    /\ rate_limit_store = << >>
NoTxt == text = "" /\ text_data = << >> /\ extracted = FALSE
NoResponse == [route |-> "", status |-> 0]
NoDocs == documents_store = << >> /\ uploads = << >> /\ response = NoResponse
NoGenerator ==
    [pc |-> "idle", route |-> "", question |-> "", doc_id |-> "",
     relevant_chunks |-> << >>, error |-> ""]
NoGen == gen = NoGenerator /\ events = << >> /\ arrived = << >>
NoFrc == question = "" /\ chunks = << >> /\ relevant_chunks = << >> /\ retrieved = FALSE

(***************************************************************************)
(* Rate limiter, app.py:26-47                                              *)
(***************************************************************************)
RATE_LIMIT_REQUESTS == 30
RATE_LIMIT_WINDOW == 60

\* Clients (request.remote_addr).
Identifiers == {"10.0.0.1", "10.0.0.2"}

\* How far the clock may move between two requests.
TickSizes == {1, RATE_LIMIT_WINDOW, RATE_LIMIT_WINDOW + 1}

\* Bounds of the sequential rate limiter runs.
MaxTicks == 1
MaxCalls == 32

\* app.py:38-41: the timestamps that survive the prune at time t.
Prune(list, t) == SelectSeq(list, LAMBDA ts : ts > t - RATE_LIMIT_WINDOW)

\* app.py:43: the length test.
LimitReachedOffByOne(list) == Len(list) > RATE_LIMIT_REQUESTS
LimitReached(list) == Len(list) >= RATE_LIMIT_REQUESTS

\* app.py:34-47: check_rate_limit run without interruption at time t.
check_rate_limit(store, identifier, t) ==
    LET pruned == Prune(store[identifier], t)
        s1 == [store EXCEPT ![identifier] = pruned]
    IN  IF LimitReached(s1[identifier])
        THEN [store |-> s1, result |-> FALSE]
        ELSE [store |-> [s1 EXCEPT ![identifier] = Append(@, t)], result |-> TRUE]

\* The client of the sequential runs.
PrimaryId == "10.0.0.1"

InitRate ==
    /\ now = 0
    /\ ticks = 0
    /\ rate_limit_store = [i \in Identifiers |-> << >>]
    /\ calls = << >>
    /\ threads = << >>
    /\ NoTxt
    /\ NoFrc
    /\ NoDocs
    /\ NoGen

\* The clock advances between requests.
Tick ==
    /\ ticks < MaxTicks
    /\ \E d \in TickSizes : now' = now + d
    /\ ticks' = ticks + 1
    /\ UNCHANGED <<rate_limit_store, calls, threads, txtVars, frcVars, docVars, genVars>>

\* One request reaches check_rate_limit (app.py:267-269, 344-346).
CheckRateLimit ==
    /\ Len(calls) < MaxCalls
    /\ LET r == check_rate_limit(rate_limit_store, PrimaryId, now)
       IN  /\ rate_limit_store' = r.store
           /\ calls' = Append(calls, [id |-> PrimaryId, t |-> now, ok |-> r.result])
    /\ UNCHANGED <<now, ticks, threads, txtVars, frcVars, docVars, genVars>>

NextRate == Tick \/ CheckRateLimit

SpecRate == InitRate /\ [][NextRate]_vars

\* Earlier calls of the same identifier inside the trailing window of call k.
EarlierInWindow(k) ==
    {j \in 1..(k - 1) : /\ calls[j].id = calls[k].id
                        /\ calls[j].t > calls[k].t - RATE_LIMIT_WINDOW}

EarlierAccepted(k) ==
    {j \in 1..(k - 1) : calls[j].id = calls[k].id /\ calls[j].ok}

\* C1: of the calls made one after another with one identifier, a call with
\* fewer than 30 earlier calls inside its 60-second window returns True, a
\* call with 30 accepted calls inside its window returns False, and a call
\* made 61 seconds or more after every accepted call returns True again.
C1_RateLimitWindow ==
    \A k \in 1..Len(calls) :
        /\ Cardinality(EarlierInWindow(k)) < RATE_LIMIT_REQUESTS => calls[k].ok
        /\ Cardinality({j \in EarlierInWindow(k) : calls[j].ok}) >= RATE_LIMIT_REQUESTS
               => ~calls[k].ok
        /\ (\A j \in EarlierAccepted(k) : calls[j].t + RATE_LIMIT_WINDOW + 1 <= calls[k].t)
               => calls[k].ok

\* C1 witness: 30 accepted calls, a 31st rejected inside the window, and a
\* later call at least 61 seconds after them accepted.
C1_Witness ==
    \E k \in 1..Len(calls) : \E m \in 1..(k - 1) :
        /\ calls[k].id = PrimaryId /\ calls[k].ok
        /\ calls[m].id = PrimaryId /\ ~calls[m].ok
        /\ Cardinality({j \in EarlierAccepted(m) : j \in EarlierInWindow(m)}) = RATE_LIMIT_REQUESTS
        /\ \A j \in EarlierAccepted(m) : calls[j].t + RATE_LIMIT_WINDOW + 1 <= calls[k].t

(***************************************************************************)
(* check_rate_limit under concurrent request handlers, app.py:34-47.       *)
(* Each handler thread runs the function's statements one at a time; the   *)
(* list comprehension (a read of the record), the assignment of its result *)
(* (a write), the length test (a read) and the append (a write) are        *)
(* separate steps, and nothing in the source serialises them.              *)
(***************************************************************************)
NumThreads == 2
ThreadIds == 1..NumThreads

IdleThread == [pc |-> "idle", id |-> "", now |-> 0, pruned |-> << >>, result |-> FALSE]

\* A record that RATE_LIMIT_REQUESTS - 1 sequential calls at time 0 leave;
\* the concurrent calls start one second later.
AlmostFull == [k \in 1..(RATE_LIMIT_REQUESTS - 1) |-> 0]

InitRateConc ==
    /\ now = 1
    /\ ticks = 0
    /\ rate_limit_store \in [Identifiers -> {<< >>, AlmostFull}]
    /\ calls = << >>
    /\ threads = [th \in ThreadIds |-> IdleThread]
    /\ NoTxt
    /\ NoFrc
    /\ NoDocs
    /\ NoGen

\* app.py:35-36: now = datetime.now(); cutoff = now - window.
T_Begin(th) ==
    /\ threads[th].pc = "idle"
    /\ \E identifier \in Identifiers :
           threads' = [threads EXCEPT ![th] =
                          [@ EXCEPT !.pc = "prune", !.id = identifier, !.now = now]]
    /\ UNCHANGED <<now, ticks, rate_limit_store, calls, txtVars, frcVars, docVars, genVars>>

\* app.py:39-41: the list comprehension reads the record and builds the pruned list.
T_Prune(th) ==
    /\ threads[th].pc = "prune"
    /\ threads' = [threads EXCEPT ![th] =
                      [@ EXCEPT !.pc = "assign",
                                !.pruned = Prune(rate_limit_store[threads[th].id],
                                                 threads[th].now)]]
    /\ UNCHANGED <<now, ticks, rate_limit_store, calls, txtVars, frcVars, docVars, genVars>>

\* app.py:38: rate_limit_store[identifier] = <the pruned list>.
T_Assign(th) ==
    /\ threads[th].pc = "assign"
    /\ rate_limit_store' = [rate_limit_store EXCEPT ![threads[th].id] = threads[th].pruned]
    /\ threads' = [threads EXCEPT ![th] = [@ EXCEPT !.pc = "test"]]
    /\ UNCHANGED <<now, ticks, calls, txtVars, frcVars, docVars, genVars>>

\* app.py:43-44: the length test; return False when the limit is reached.
T_Test(th) ==
    /\ threads[th].pc = "test"
    /\ threads' = [threads EXCEPT ![th] =
                      IF LimitReached(rate_limit_store[threads[th].id])
                      THEN [@ EXCEPT !.pc = "done", !.result = FALSE]
                      ELSE [@ EXCEPT !.pc = "append"]]
    /\ UNCHANGED <<now, ticks, rate_limit_store, calls, txtVars, frcVars, docVars, genVars>>

\* app.py:46-47: append now to the record; return True.
T_Append(th) ==
    /\ threads[th].pc = "append"
    /\ rate_limit_store' = [rate_limit_store EXCEPT ![threads[th].id] =
                               Append(@, threads[th].now)]
    /\ threads' = [threads EXCEPT ![th] = [@ EXCEPT !.pc = "done", !.result = TRUE]]
    /\ UNCHANGED <<now, ticks, calls, txtVars, frcVars, docVars, genVars>>

\* The clock advances while the handlers run.
TickConc ==
    /\ ticks < MaxTicks
    /\ \E d \in TickSizes : now' = now + d
    /\ ticks' = ticks + 1
    /\ UNCHANGED <<rate_limit_store, calls, threads, txtVars, frcVars, docVars, genVars>>

NextRateConc ==
    \/ TickConc
    \/ \E th \in ThreadIds :
          T_Begin(th) \/ T_Prune(th) \/ T_Assign(th) \/ T_Test(th) \/ T_Append(th)

SpecRateConc == InitRateConc /\ [][NextRateConc]_vars

AllDone == \A th \in ThreadIds : threads[th].pc = "done"

Occurrences(list, x) == Cardinality({k \in 1..Len(list) : list[k] = x})

\* The calls that returned True for the identifier and timestamp of thread th.
AcceptedLike(th) ==
    {u \in ThreadIds : /\ threads[u].pc = "done" /\ threads[u].result
                       /\ threads[u].id = threads[th].id
                       /\ threads[u].now = threads[th].now}

\* No call for the identifier of th ran late enough to prune th's timestamp.
StillInWindow(th) ==
    \A u \in ThreadIds :
        threads[u].id = threads[th].id => threads[th].now > threads[u].now - RATE_LIMIT_WINDOW

\* C5: once all concurrent calls have finished, every call that returned True
\* has left its timestamp in its identifier's record (no increment is lost),
\* unless a later call's window has legitimately expired it.
C5_NoLostIncrement ==
    AllDone =>
        \A th \in ThreadIds :
            (threads[th].result /\ StillInWindow(th)) =>
                Occurrences(rate_limit_store[threads[th].id], threads[th].now)
                    >= Cardinality(AcceptedLike(th))

(***************************************************************************)
(* String helpers: what Python's str.split, str.strip and str.join do.     *)
(***************************************************************************)
Min(a, b) == IF a <= b THEN a ELSE b

Whitespace == {" ", "\n", "\t", "\r", "\f"}

\* s[i:] for a 0-based i.
From(s, i) == SubSeq(s, i + 1, Len(s))

\* The 1-based position of the first occurrence of sep in s, 0 when there is none.
Find(s, sep) ==
    LET hits == {i \in 1..(Len(s) - Len(sep) + 1) : SubSeq(s, i, i + Len(sep) - 1) = sep}
    IN  IF hits = {} THEN 0 ELSE CHOOSE i \in hits : \A j \in hits : i <= j

\* str.split(sep): the pieces between non-overlapping occurrences, left to right.
RECURSIVE Split(_, _)
Split(s, sep) ==
    LET i == Find(s, sep)
    IN  IF i = 0 THEN <<s>>
        ELSE <<SubSeq(s, 1, i - 1)>> \o Split(From(s, i + Len(sep) - 1), sep)

\* str.strip(): leading and trailing whitespace removed.
RECURSIVE LStrip(_)
LStrip(s) == IF Len(s) > 0 /\ Head(s) \in Whitespace THEN LStrip(Tail(s)) ELSE s
RECURSIVE RStrip(_)
RStrip(s) ==
    IF Len(s) > 0 /\ SubSeq(s, Len(s), Len(s)) \in Whitespace
    THEN RStrip(SubSeq(s, 1, Len(s) - 1)) ELSE s
Strip(s) == RStrip(LStrip(s))

\* sep.join(parts)
RECURSIVE Join(_, _)
Join(parts, sep) ==
    IF Len(parts) = 0 THEN ""
    ELSE IF Len(parts) = 1 THEN parts[1]
    ELSE parts[1] \o sep \o Join(Tail(parts), sep)

(***************************************************************************)
(* extract_text_from_txt, app.py:96-124                                    *)
(***************************************************************************)
\* app.py:112
chunk_size == 15

\* app.py:101: the stripped non-empty pieces of text.split('\n\n').
Paragraphs(t) ==
    LET pieces == Split(t, "\n\n")
        kept == SelectSeq(pieces, LAMBDA p : Strip(p) # "")
    IN  [k \in 1..Len(kept) |-> Strip(kept[k])]

\* app.py:105-109: one segment per paragraph, labelled with its 1-based index.
ParagraphSegments(paragraphs) ==
    [k \in 1..Len(paragraphs) |-> [lines |-> "¶" \o ToString(k), text |-> paragraphs[k]]]

\* app.py:111-120: groups of chunk_size lines, labelled start-end, blank groups skipped.
LineGroupSegments(t) ==
    LET lines == Split(t, "\n")
        n == Len(lines)
        starts == [g \in 1..((n + chunk_size - 1) \div chunk_size) |-> (g - 1) * chunk_size]
        group(i) == [lines |-> ToString(i + 1) \o "-" \o ToString(Min(i + chunk_size, n)),
                     text |-> Strip(Join(SubSeq(lines, i + 1, Min(i + chunk_size, n)), "\n"))]
        all == [g \in 1..Len(starts) |-> group(starts[g])]
    IN  SelectSeq(all, LAMBDA seg : seg.text # "")

\* app.py:104: which of the two segmentations is used.
UseParagraphs(t) == Paragraphs(t) # << >>

\* app.py:96-122 on a file that reads and decodes.
extract_text_from_txt(t) ==
    IF UseParagraphs(t) THEN ParagraphSegments(Paragraphs(t)) ELSE LineGroupSegments(t)

\* Bounds of the texts: every string of up to MaxTextLen characters of
\* TextAlphabet, and the texts of 1..MaxLines one-letter lines.
MaxTextLen == 5
MaxLines == 31
TextAlphabet == {"a", " ", "\n"}

RECURSIVE Strings(_, _)
Strings(alphabet, n) ==
    IF n = 0 THEN {""}
    ELSE LET shorter == Strings(alphabet, n - 1)
         IN  shorter \cup {w \o c : w \in shorter, c \in alphabet}

LinesText(n) == Join([k \in 1..n |-> "a"], "\n")

Texts == Strings(TextAlphabet, MaxTextLen) \cup {LinesText(n) : n \in 1..MaxLines}

InitTxt ==
    /\ NoRate
    /\ NoFrc
    /\ NoDocs
    /\ NoGen
    /\ text \in Texts
    /\ text_data = << >>
    /\ extracted = FALSE

ExtractTxt ==
    /\ ~extracted
    /\ text_data' = extract_text_from_txt(text)
    /\ extracted' = TRUE
    /\ UNCHANGED <<rateVars, frcVars, docVars, genVars, text>>

NextTxt == ExtractTxt

SpecTxt == InitTxt /\ [][NextTxt]_vars

\* A paragraph break: an empty line between two lines.
HasParagraphBreak(t) == Find(t, "\n\n") # 0

\* C6: the segmentation is chosen by the presence of paragraph breaks: with
\* one, one segment per non-empty paragraph labelled with its index; with
\* none (a single block), one segment per group of 15 lines labelled
\* start-end, so 30 lines give the segments 1-15 and 16-30.
C6_SegmentationByParagraphBreak ==
    extracted =>
        text_data = IF HasParagraphBreak(text)
                    THEN ParagraphSegments(Paragraphs(text))
                    ELSE LineGroupSegments(text)

(***************************************************************************)
(* find_relevant_chunks_fast, app.py:422-446                               *)
(***************************************************************************)
UpperCase == "ABCDEFGHIJKLMNOPQRSTUVWXYZ"
LowerCase == "abcdefghijklmnopqrstuvwxyz"

Chars(s) == {SubSeq(s, i, i) : i \in 1..Len(s)}
UpperChars == Chars(UpperCase)
LowerOf == [c \in UpperChars |-> SubSeq(LowerCase, Find(UpperCase, c), Find(UpperCase, c))]

\* str.lower() on one character.
LowerChar(c) == IF c \in UpperChars THEN LowerOf[c] ELSE c

\* str.lower()
RECURSIVE Lower(_)
Lower(s) == IF s = "" THEN "" ELSE LowerChar(Head(s)) \o Lower(Tail(s))

\* str.split() without a separator: the maximal runs of non-whitespace.
RECURSIVE SplitWords(_)
SplitWords(s) ==
    LET t == LStrip(s)
        ends == {i \in 1..Len(t) : SubSeq(t, i, i) \in Whitespace}
        e == IF ends = {} THEN Len(t) + 1 ELSE CHOOSE i \in ends : \A j \in ends : i <= j
    IN  IF t = "" THEN << >>
        ELSE <<SubSeq(t, 1, e - 1)>> \o SplitWords(From(t, e - 1))

Range(f) == {f[k] : k \in DOMAIN f}

\* app.py:425-426
question_words(q) == Range(SplitWords(Lower(q)))

\* app.py:429-432: the size of the intersection of the two word sets.
keyword_overlap(q, chunk) ==
    Cardinality(question_words(q) \cap Range(SplitWords(Lower(chunk.text))))

\* app.py:434: a chunk is scored when it shares a word or contains a question word.
Qualifies(q, chunk) ==
    \/ keyword_overlap(q, chunk) > 0
    \/ \E word \in question_words(q) : Find(Lower(chunk.text), word) # 0

\* app.py:437: list.sort(reverse=True, key=score) is stable: of two entries
\* with equal scores the one that came first stays first.
RECURSIVE SortUnstable(_)
SortUnstable(scored) ==
    IF scored = << >> THEN << >>
    ELSE LET rest == SortUnstable(Tail(scored))
             x == Head(scored)
             before == SelectSeq(rest, LAMBDA y : y[1] >= x[1])
             after == SelectSeq(rest, LAMBDA y : y[1] < x[1])
         IN  before \o <<x>> \o after
RECURSIVE SortByScoreDescending(_)
SortByScoreDescending(scored) ==
    IF scored = << >> THEN << >>
    ELSE LET rest == SortByScoreDescending(Tail(scored))
             x == Head(scored)
             before == SelectSeq(rest, LAMBDA y : y[1] > x[1])
             after == SelectSeq(rest, LAMBDA y : y[1] <= x[1])
         IN  before \o <<x>> \o after

\* app.py:438 and app.py:441
top_limit == 10
fallback_limit == 5

\* list[:n]
Take(list, n) == SubSeq(list, 1, Min(n, Len(list)))

\* app.py:422-446, for a question that is a string and chunks that have a text
\* (no exception: the except branch returns the same chunks[:5] as line 441).
FindRelevantNoFallback(q, cs) ==
    LET scored == [k \in 1..Len(cs) |-> <<keyword_overlap(q, cs[k]), cs[k]>>]
        scored_chunks == SelectSeq(scored, LAMBDA sc : Qualifies(q, sc[2]))
        sorted == Take(SortByScoreDescending(scored_chunks), top_limit)
    IN  [k \in 1..Len(sorted) |-> sorted[k][2]]
find_relevant_chunks_fast(q, cs) ==
    LET scored == [k \in 1..Len(cs) |-> <<keyword_overlap(q, cs[k]), cs[k]>>]
        scored_chunks == SelectSeq(scored, LAMBDA sc : Qualifies(q, sc[2]))
        sorted == Take(SortByScoreDescending(scored_chunks), top_limit)
        top_chunks == [k \in 1..Len(sorted) |-> sorted[k][2]]
    IN  IF top_chunks = << >> THEN Take(cs, fallback_limit) ELSE top_chunks

\* The questions and chunk texts of the retrieval runs.
Questions == {"", "cat Dog", "Where is the CAT", "bird bird", "zebra"}
ChunkTexts == <<"the cat sat", "a dog and a Cat", "Category: birds", "nothing here">>

\* Bounds: every list of up to MaxShortList chunk texts, and the cyclic lists
\* of up to MaxLongList chunks.
MaxShortList == 3
MaxLongList == 15

RECURSIVE Lists(_, _)
Lists(S, n) ==
    IF n = 0 THEN {<< >>}
    ELSE LET shorter == Lists(S, n - 1)
         IN  shorter \cup {Append(l, x) : l \in shorter, x \in S}

CyclicList(n, offset) ==
    [k \in 1..n |-> ChunkTexts[((k + offset) % Len(ChunkTexts)) + 1]]

TextLists ==
    Lists(Range(ChunkTexts), MaxShortList)
        \cup {CyclicList(n, off) : n \in 1..MaxLongList, off \in 1..Len(ChunkTexts)}

\* chunk_text_smart output for a TXT file of these paragraphs (app.py:140-152).
ChunksOf(texts) ==
    [k \in 1..Len(texts) |-> [text |-> texts[k], metadata |-> [lines |-> "¶" \o ToString(k)]]]

InitFrc ==
    /\ NoRate
    /\ NoTxt
    /\ NoDocs
    /\ NoGen
    /\ question \in Questions
    /\ chunks \in {ChunksOf(l) : l \in TextLists}
    /\ relevant_chunks = << >>
    /\ retrieved = FALSE

FindRelevant ==
    /\ ~retrieved
    /\ relevant_chunks' = find_relevant_chunks_fast(question, chunks)
    /\ retrieved' = TRUE
    /\ UNCHANGED <<rateVars, txtVars, docVars, genVars, question, chunks>>

NextFrc == FindRelevant

SpecFrc == InitFrc /\ [][NextFrc]_vars

\* The positions of the candidates that qualify.
QualifyingPositions == {k \in 1..Len(chunks) : Qualifies(question, chunks[k])}

\* The position in the candidate list of a returned chunk (labels are distinct).
PositionOf(c) == CHOOSE k \in 1..Len(chunks) : chunks[k] = c

\* C9: when some chunk qualifies the result is the best min(10, n) of the n
\* qualifying chunks, in non-increasing score, equal scores in their original
\* relative order; when none qualifies it is exactly the first 5 candidates
\* (all of them if fewer) in original order.
C9_RankedOrFallback ==
    retrieved =>
        IF QualifyingPositions # {}
        THEN LET r == relevant_chunks
                 pos == [k \in 1..Len(r) |-> PositionOf(r[k])]
                 score(k) == keyword_overlap(question, chunks[k])
             IN  /\ Len(r) = Min(top_limit, Cardinality(QualifyingPositions))
                 /\ \A k \in 1..Len(r) : r[k] \in Range(chunks) /\ pos[k] \in QualifyingPositions
                 /\ \A i, j \in 1..Len(r) : i < j =>
                        /\ score(pos[i]) >= score(pos[j])
                        /\ score(pos[i]) = score(pos[j]) => pos[i] < pos[j]
                 /\ \A k \in QualifyingPositions \ Range(pos) :
                        \A i \in 1..Len(r) : score(k) <= score(pos[i])
        ELSE relevant_chunks = SubSeq(chunks, 1, Min(fallback_limit, Len(chunks)))

\* C9 witness: more than 10 chunks qualify, with ties and distinct scores among
\* the 10 returned.
C9_WitnessRanked ==
    /\ retrieved
    /\ Cardinality(QualifyingPositions) > top_limit
    /\ Len(relevant_chunks) = top_limit
    /\ \E i, j \in 1..Len(relevant_chunks) :
          /\ i < j
          /\ keyword_overlap(question, relevant_chunks[i])
                = keyword_overlap(question, relevant_chunks[j])
    /\ keyword_overlap(question, relevant_chunks[1])
          > keyword_overlap(question, relevant_chunks[top_limit])

(***************************************************************************)
(* Upload and the document registry, app.py:31-32, 49-94, 126-257          *)
(***************************************************************************)
\* app.py:18
ALLOWED_EXTENSIONS == {"pdf", "docx", "txt"}

Contains(s, sub) == Find(s, sub) # 0

\* The position of the last "." of s, 0 when there is none.
LastDot(s) ==
    LET dots == {i \in 1..Len(s) : SubSeq(s, i, i) = "."}
    IN  IF dots = {} THEN 0 ELSE CHOOSE i \in dots : \A j \in dots : j <= i

\* filename.rsplit('.', 1)[1]
Extension(filename) == From(filename, LastDot(filename))

\* app.py:31-32
allowed_file(filename) ==
    Contains(filename, ".") /\ Lower(Extension(filename)) \in ALLOWED_EXTENSIONS

\* The characters werkzeug's secure_filename keeps, in code point order.
SafeChars == "-.0123456789ABCDEFGHIJKLMNOPQRSTUVWXYZ_abcdefghijklmnopqrstuvwxyz"

SafeCharSet == Chars(SafeChars)
CodePoint == [c \in SafeCharSet |-> Find(SafeChars, c)]

RECURSIVE Replace(_, _, _)
Replace(s, c, d) ==
    IF s = "" THEN "" ELSE (IF Head(s) = c THEN d ELSE Head(s)) \o Replace(Tail(s), c, d)

RECURSIVE KeepSafe(_)
KeepSafe(s) ==
    IF s = "" THEN ""
    ELSE (IF Head(s) \in SafeCharSet THEN Head(s) ELSE "") \o KeepSafe(Tail(s))

RECURSIVE StripDots(_)
StripDots(s) ==
    IF Len(s) > 0 /\ Head(s) \in {".", "_"} THEN StripDots(Tail(s))
    ELSE IF Len(s) > 0 /\ SubSeq(s, Len(s), Len(s)) \in {".", "_"}
         THEN StripDots(SubSeq(s, 1, Len(s) - 1))
         ELSE s

\* app.py:191: werkzeug.utils.secure_filename: path separators become spaces,
\* whitespace runs become "_", unsafe characters go, "." and "_" are
\* stripped from both ends.
secure_filename(name) ==
    StripDots(KeepSafe(Join(SplitWords(Replace(name, "/", " ")), "_")))

\* app.py:51-60: PdfReader's pages are the form-feed separated parts of the body.
extract_text_from_pdf(body) ==
    LET pages == Split(body, "\f")
        all == [k \in 1..Len(pages) |-> [page |-> k, text |-> Strip(pages[k])]]
    IN  SelectSeq(all, LAMBDA item : item.text # "")

\* app.py:77
paragraphs_per_section == 5

\* app.py:66-92: Document's paragraphs are the lines of the body; the
\* non-blank ones are grouped by five into numbered sections.
extract_text_from_docx(body) ==
    LET paras == SelectSeq(Split(body, "\n"), LAMBDA para : Strip(para) # "")
        n == Len(paras)
        sections == (n + paragraphs_per_section - 1) \div paragraphs_per_section
    IN  [sec \in 1..sections |->
            [section |-> sec,
             text |-> Join([k \in 1..(Min(sec * paragraphs_per_section, n)
                                       - (sec - 1) * paragraphs_per_section) |->
                               Strip(paras[(sec - 1) * paragraphs_per_section + k])],
                           "\n\n")]]

\* app.py:199-204
ExtractText(file_ext, body) ==
    IF file_ext = "pdf" THEN extract_text_from_pdf(body)
    ELSE IF file_ext = "docx" THEN extract_text_from_docx(body)
    ELSE extract_text_from_txt(body)

\* app.py:145-150: the chunk's provenance, by file type.
ChunkMetadata(item, file_type) ==
    IF file_type = "pdf" THEN [page |-> item.page]
    ELSE IF file_type = "docx" THEN [section |-> item.section]
    ELSE [lines |-> item.lines]

\* app.py:126-154: every segment of the modelled files is shorter than the
\* splitter's chunk_size of 1000, and the splitter returns such a text whole.
chunk_text_smart(data, file_type) ==
    [k \in 1..Len(data) |->
        [text |-> data[k].text, metadata |-> ChunkMetadata(data[k], file_type)]]

\* The registry as a Python dict: lookups by key, insertion order kept.
HasKey(store, key) == \E k \in 1..Len(store) : store[k].doc_id = key
Lookup(store, key) == store[CHOOSE k \in 1..Len(store) : store[k].doc_id = key].doc

\* app.py:209: documents_store[doc_id] = {...}: a new key is added at the
\* end, an existing key keeps its place and gets the new value.
SetItem(store, key, doc) ==
    IF HasKey(store, key)
    THEN [k \in 1..Len(store) |->
            IF store[k].doc_id = key THEN [doc_id |-> key, doc |-> doc] ELSE store[k]]
    ELSE Append(store, [doc_id |-> key, doc |-> doc])

\* The format name in an extractor's error message (app.py:62, 94, 124).
FormatName(file_ext) ==
    IF file_ext = "pdf" THEN "PDF" ELSE IF file_ext = "docx" THEN "DOCX" ELSE "TXT"

UploadError(status, message) ==
    [route |-> "upload", status |-> status, error |-> message]

\* app.py:209-215 and 219-229: the document is registered and reported.
Registered(store, doc_id, doc) ==
    [store |-> SetItem(store, doc_id, doc),
     response |-> [route |-> "upload", status |-> 200, doc_id |-> doc_id,
                   filename |-> doc.filename, chunks_count |-> Len(doc.chunks)]]

\* app.py:190-232: the try block at time t. req.fails names the step that
\* raises ("save", "extract", "chunk"), or "none"; a raise before line 209
\* leaves the registry alone and is reported as 500.
ProcessUploadRegisterFirst(req, t, store) ==
    LET filename == secure_filename(req.filename)
        doc_id == ToString(t) \o "_" \o filename
        file_ext == Lower(Extension(filename))
        data == ExtractText(file_ext, req.body)
        doc == [filename |-> filename, file_type |-> file_ext,
                chunks |-> chunk_text_smart(data, file_ext),
                raw_text_data |-> data, uploaded_at |-> t]
        partial == [doc EXCEPT !.chunks = << >>]
    IN  IF req.fails = "save"
        THEN [store |-> store, response |-> UploadError(500, "save failed")]
        ELSE IF ~Contains(filename, ".")
        THEN [store |-> store, response |-> UploadError(500, "list index out of range")]
        ELSE IF req.fails = "extract"
        THEN [store |-> store,
              response |-> UploadError(500, "Error extracting " \o FormatName(file_ext)
                                            \o ": cannot parse")]
        ELSE IF req.fails = "chunk"
        THEN [store |-> SetItem(store, doc_id, partial),
              response |-> UploadError(500, "split failed")]
        ELSE Registered(store, doc_id, doc)
ProcessUpload(req, t, store) ==
    LET filename == secure_filename(req.filename)
        doc_id == ToString(t) \o "_" \o filename
        file_ext == Lower(Extension(filename))
        data == ExtractText(file_ext, req.body)
        doc == [filename |-> filename, file_type |-> file_ext,
                chunks |-> chunk_text_smart(data, file_ext),
                raw_text_data |-> data, uploaded_at |-> t]
    IN  IF req.fails = "save"
        THEN [store |-> store, response |-> UploadError(500, "save failed")]
        ELSE IF ~Contains(filename, ".")
        THEN [store |-> store, response |-> UploadError(500, "list index out of range")]
        ELSE IF req.fails = "extract"
        THEN [store |-> store,
              response |-> UploadError(500, "Error extracting " \o FormatName(file_ext)
                                            \o ": cannot parse")]
        ELSE IF req.fails = "chunk"
        THEN [store |-> store, response |-> UploadError(500, "split failed")]
        ELSE Registered(store, doc_id, doc)

\* app.py:177-232: POST /api/upload at time t.
upload_file(req, t, store) ==
    IF ~req.has_file
    THEN [store |-> store, response |-> UploadError(400, "No file provided")]
    ELSE IF req.filename = ""
    THEN [store |-> store, response |-> UploadError(400, "No file selected")]
    ELSE IF ~allowed_file(req.filename)
    THEN [store |-> store,
          response |-> UploadError(400,
              "File type not supported. Please upload PDF, DOCX, or TXT files.")]
    ELSE ProcessUpload(req, t, store)

\* Python's order on strings: by code point, a proper prefix first.
RECURSIVE StrLess(_, _)
StrLess(a, b) ==
    IF b = "" THEN FALSE
    ELSE IF a = "" THEN TRUE
    ELSE IF Head(a) = Head(b) THEN StrLess(Tail(a), Tail(b))
    ELSE CodePoint[Head(a)] < CodePoint[Head(b)]

\* app.py:243: docs.sort(key=doc_id, reverse=True); the keys of a dict are distinct.
RECURSIVE SortByDocIdDescending(_)
SortByDocIdDescending(docs) ==
    IF docs = << >> THEN << >>
    ELSE LET rest == SortByDocIdDescending(Tail(docs))
             x == Head(docs)
             before == SelectSeq(rest, LAMBDA y : StrLess(x.doc_id, y.doc_id))
             after == SelectSeq(rest, LAMBDA y : ~StrLess(x.doc_id, y.doc_id))
         IN  before \o <<x>> \o after

\* app.py:234-245: GET /api/documents
get_documents(store) ==
    LET docs == [k \in 1..Len(store) |->
                    [doc_id |-> store[k].doc_id, filename |-> store[k].doc.filename,
                     file_type |-> store[k].doc.file_type,
                     chunks_count |-> Len(store[k].doc.chunks)]]
    IN  [route |-> "documents", status |-> 200, documents |-> SortByDocIdDescending(docs)]

\* app.py:247-257: GET /api/document/<doc_id>
get_document(store, doc_id) ==
    IF ~HasKey(store, doc_id)
    THEN [route |-> "document", status |-> 404, error |-> "Document not found"]
    ELSE LET doc == Lookup(store, doc_id)
         IN  [route |-> "document", status |-> 200, filename |-> doc.filename,
              file_type |-> doc.file_type, text_data |-> doc.raw_text_data]

\* time.time() when the process starts serving (app.py:192): a ten-digit epoch.
StartTime == 1700000000

\* Bound: the number of successful uploads of a run.
MaxUploads == 2

FileNames == {"", "a.txt", "b.txt", "c.docx", "R.PDF", "x.xlsx", "noext", ".txt"}
Bodies == {"", "the cat\n\na dog\fCategory"}
Failures == {"none", "save", "extract", "chunk"}

UploadRequests ==
    {[has_file |-> FALSE, filename |-> "", body |-> "", fails |-> "none"]}
        \cup [has_file : {TRUE}, filename : FileNames, body : Bodies, fails : Failures]

InitUpload ==
    /\ now = StartTime
    /\ ticks = 0
    /\ rate_limit_store = << >>
    /\ calls = << >>
    /\ threads = << >>
    /\ NoTxt
    /\ NoFrc
    /\ NoDocs
    /\ NoGen

\* A second passes.
TickSecond ==
    /\ ticks < MaxTicks
    /\ now' = now + 1
    /\ ticks' = ticks + 1
    /\ UNCHANGED <<rate_limit_store, calls, threads, txtVars, frcVars, docVars, genVars>>

Upload ==
    /\ Len(uploads) < MaxUploads
    /\ \E req \in UploadRequests :
          LET r == upload_file(req, now, documents_store)
          IN  /\ documents_store' = r.store
              /\ response' = r.response
              /\ uploads' =
                    IF r.response.status = 200
                    THEN Append(uploads,
                                [doc_id |-> r.response.doc_id, filename |-> req.filename,
                                 text_data |-> ExtractText(Lower(Extension(req.filename)),
                                                           req.body)])
                    ELSE uploads
    /\ UNCHANGED <<rateVars, txtVars, frcVars, genVars>>

GetDocuments ==
    /\ response' = get_documents(documents_store)
    /\ UNCHANGED <<rateVars, txtVars, frcVars, genVars, documents_store, uploads>>

GetDocument ==
    /\ \E doc_id \in {uploads[k].doc_id : k \in 1..Len(uploads)} \cup {"missing"} :
          response' = get_document(documents_store, doc_id)
    /\ UNCHANGED <<rateVars, txtVars, frcVars, genVars, documents_store, uploads>>

NextUpload == TickSecond \/ Upload \/ GetDocuments \/ GetDocument

SpecUpload == InitUpload /\ [][NextUpload]_vars

\* What GET /api/document/<doc_id> must return for upload u.
Retrieved(u) ==
    LET r == get_document(documents_store, u.doc_id)
    IN  r.status = 200 /\ r.text_data = u.text_data

\* C3: two successful uploads of the same filename get distinct doc_ids, and
\* after both each document is retrievable under its own doc_id with its
\* own content, whatever the time between the two uploads.
C3_SameNameUploadsDistinct ==
    \A i, j \in 1..Len(uploads) :
        (i < j /\ uploads[i].filename = uploads[j].filename) =>
            /\ uploads[i].doc_id # uploads[j].doc_id
            /\ Retrieved(uploads[i])
            /\ Retrieved(uploads[j])

\* C4: an upload answered 400, or 500 because a step before registration
\* raised, leaves documents_store exactly as it was.
C4_FailedUploadLeavesStore ==
    [][(response'.route = "upload" /\ response'.status \in {400, 500})
          => documents_store' = documents_store]_vars

\* C4 witness: with a document registered, an upload has failed in chunking.
C4_Witness ==
    /\ response.route = "upload" /\ response.status = 500
    /\ response.error = "split failed"
    /\ Len(documents_store) = 1

Reverse(list) == [k \in 1..Len(list) |-> list[Len(list) + 1 - k]]

\* C8: GET /api/documents lists the documents in reverse upload order,
\* whatever their filenames and the time between the uploads.
C8_ListingReverseUploadOrder ==
    response.route = "documents" =>
        [k \in 1..Len(response.documents) |-> response.documents[k].doc_id]
            = Reverse([k \in 1..Len(uploads) |-> uploads[k].doc_id])

(***************************************************************************)
(* The streaming ask endpoints, app.py:259-420                             *)
(***************************************************************************)
\* app.py:320 and 407
reference_limit == 200
\* app.py:289, 318 and app.py:375, 405
stream_top == 3
multi_top == 5
\* app.py:325 and app.py:413
stream_high == 2
multi_high == 3

CannedStream == "I could not find relevant information in the document to answer this question."
CannedMulti == "I could not find relevant information across the documents to answer this question."

TokenEvent(token) == [token |-> token]
IsToken(e) == "token" \in DOMAIN e
IsReferences(e) == "references" \in DOMAIN e
IsError(e) == "error" \in DOMAIN e
IsTerminal(e) == IsReferences(e) \/ IsError(e)

\* app.py:320, 407: the chunk text cut to 200 characters plus an ellipsis.
ReferenceText(t) ==
    IF Len(t) > reference_limit THEN SubSeq(t, 1, reference_limit) \o "..." ELSE t

\* app.py:317-326 and 404-414: the trailing references/confidence event.
ReferencesEvent(route, relevant) ==
    IF route = "ask-stream"
    THEN [references |-> [k \in 1..Len(Take(relevant, stream_top)) |->
                             [text |-> ReferenceText(relevant[k].text),
                              metadata |-> relevant[k].metadata]],
          confidence |-> IF Len(relevant) >= stream_high THEN "high" ELSE "medium"]
    ELSE [references |-> [k \in 1..Len(Take(relevant, multi_top)) |->
                             [text |-> ReferenceText(relevant[k].text),
                              metadata |-> relevant[k].metadata,
                              source |-> relevant[k].source]],
          confidence |-> IF Len(relevant) >= multi_high THEN "high" ELSE "medium"]

\* app.py:285-286 and 369-370: the two events of the no-match branch.
NoMatchEvents(route) ==
    <<TokenEvent(IF route = "ask-stream" THEN CannedStream ELSE CannedMulti),
      [references |-> << >>, confidence |-> "low"]>>

\* app.py:330: the test for the model/configuration hint.
IsModelError(error_msg) ==
    Contains(Lower(error_msg), "model") \/ Contains(Lower(error_msg), "not found")

\* app.py:328-333 and 416-418: the event of the except clause.
ErrorEvent(route, error_msg) ==
    IF route = "ask-stream" /\ IsModelError(error_msg)
    THEN [error |-> "Ollama model error: " \o error_msg]
    ELSE [error |-> "Error processing question: " \o error_msg]

\* What the generator yields once the try block has raised: the except
\* clause's event and nothing else.
ExceptEventsThenReferences(route, error_msg, relevant) ==
    <<ErrorEvent(route, error_msg), ReferencesEvent(route, relevant)>>
ExceptEvents(route, error_msg, relevant) == <<ErrorEvent(route, error_msg)>>

\* app.py:356-364: the chunks of every document, in registry order, each
\* tagged with its document's filename.
RECURSIVE AllChunks(_)
AllChunks(store) ==
    IF store = << >> THEN << >>
    ELSE LET doc == Head(store).doc
         IN  [k \in 1..Len(doc.chunks) |->
                 [text |-> doc.chunks[k].text, metadata |-> doc.chunks[k].metadata,
                  source |-> doc.filename]]
             \o AllChunks(Tail(store))

\* Bounds of the streaming runs: the documents uploaded before the question
\* and the fragments the chat service delivers.
MaxDocs == 2
MaxFragments == 2

SampleFiles == {[filename |-> "a.txt", body |-> ""],
                [filename |-> "R.PDF", body |-> "the cat\n\na dog\fCategory"]}

\* The registry after the given files were uploaded, one per second.
RECURSIVE StoreAfter(_, _)
StoreAfter(files, t) ==
    IF files = << >> THEN << >>
    ELSE upload_file([has_file |-> TRUE, filename |-> files[Len(files)].filename,
                      body |-> files[Len(files)].body, fails |-> "none"],
                     t + Len(files),
                     StoreAfter(SubSeq(files, 1, Len(files) - 1), t)).store

SampleStores == {StoreAfter(files, StartTime) : files \in Lists(SampleFiles, MaxDocs)}

\* A record that RATE_LIMIT_REQUESTS accepted calls at time t leave.
FullAt(t) == [k \in 1..RATE_LIMIT_REQUESTS |-> t]

AskQuestions == {"", "Where is the CAT", "zebra"}
Tokens == {"Par", "is"}
Fragments == {[message |-> [content |-> tok]] : tok \in Tokens} \cup {[done |-> TRUE]}
ErrorMessages == {"model 'llama2' not found", "Connection refused", "Model is loading"}

\* app.py:313: the fragment carries a content.
HasContent(f) == "message" \in DOMAIN f /\ "content" \in DOMAIN f.message

InitStream ==
    /\ now = StartTime + MaxDocs + 1
    /\ ticks = 0
    /\ rate_limit_store \in
          {[i \in Identifiers |-> << >>],
           [i \in Identifiers |-> IF i = PrimaryId THEN FullAt(StartTime + MaxDocs + 1)
                                                   ELSE << >>]}
    /\ calls = << >>
    /\ threads = << >>
    /\ NoTxt
    /\ NoFrc
    /\ documents_store \in SampleStores
    /\ uploads = << >>
    /\ response = NoResponse
    /\ NoGen

StreamError(route, status, message) == [route |-> route, status |-> status, error |-> message]

\* app.py:259-275, 335: POST /api/ask-stream up to the start of the generator.
AskStream ==
    /\ gen.pc = "idle" /\ response = NoResponse
    /\ \E q \in AskQuestions :
       \E doc_id \in {documents_store[k].doc_id : k \in 1..Len(documents_store)}
                       \cup {"", "missing"} :
          LET r == check_rate_limit(rate_limit_store, PrimaryId, now)
          IN  /\ rate_limit_store' = r.store
              /\ IF ~r.result
                 THEN /\ response' = StreamError("ask-stream", 429,
                                         "Rate limit exceeded. Please try again later.")
                      /\ gen' = gen
                 ELSE IF q = ""
                 THEN /\ response' = StreamError("ask-stream", 400, "Question is required")
                      /\ gen' = gen
                 ELSE IF doc_id = "" \/ ~HasKey(documents_store, doc_id)
                 THEN /\ response' = StreamError("ask-stream", 400,
                                         "Valid document ID is required")
                      /\ gen' = gen
                 ELSE /\ response' = [route |-> "ask-stream", status |-> 200]
                      /\ gen' = [gen EXCEPT !.pc = "retrieve", !.route = "ask-stream",
                                            !.question = q, !.doc_id = doc_id]
    /\ UNCHANGED <<now, ticks, calls, threads, txtVars, frcVars, documents_store,
                   uploads, events, arrived>>

\* app.py:337-352, 420: POST /api/ask-multi up to the start of the generator.
AskMulti ==
    /\ gen.pc = "idle" /\ response = NoResponse
    /\ \E q \in AskQuestions :
          LET r == check_rate_limit(rate_limit_store, PrimaryId, now)
          IN  /\ rate_limit_store' = r.store
              /\ IF ~r.result
                 THEN /\ response' = StreamError("ask-multi", 429,
                                         "Rate limit exceeded. Please try again later.")
                      /\ gen' = gen
                 ELSE IF q = ""
                 THEN /\ response' = StreamError("ask-multi", 400, "Question is required")
                      /\ gen' = gen
                 ELSE IF documents_store = << >>
                 THEN /\ response' = StreamError("ask-multi", 400, "No documents available")
                      /\ gen' = gen
                 ELSE /\ response' = [route |-> "ask-multi", status |-> 200]
                      /\ gen' = [gen EXCEPT !.pc = "retrieve", !.route = "ask-multi",
                                            !.question = q]
    /\ UNCHANGED <<now, ticks, calls, threads, txtVars, frcVars, documents_store,
                   uploads, events, arrived>>

\* app.py:279-287 and 356-371: retrieval; with nothing retrieved the canned
\* token and the empty low-confidence event are yielded and the generator returns.
G_Retrieve ==
    /\ gen.pc = "retrieve"
    /\ LET candidates == IF gen.route = "ask-stream"
                         THEN Lookup(documents_store, gen.doc_id).chunks
                         ELSE AllChunks(documents_store)
           relevant == find_relevant_chunks_fast(gen.question, candidates)
       IN  IF relevant = << >>
           THEN /\ events' = events \o NoMatchEvents(gen.route)
                /\ gen' = [gen EXCEPT !.pc = "done"]
           ELSE /\ events' = events
                /\ gen' = [gen EXCEPT !.pc = "chat", !.relevant_chunks = relevant]
    /\ UNCHANGED <<rateVars, txtVars, frcVars, docVars, arrived>>

\* app.py:312-315 and 399-402: the chat service delivers a fragment; one
\* with a content is yielded as a token event.
G_Fragment ==
    /\ gen.pc = "chat"
    /\ Len(arrived) < MaxFragments
    /\ \E f \in Fragments :
          /\ arrived' = Append(arrived, f)
          /\ events' = IF HasContent(f)
                        THEN Append(events, TokenEvent(f.message.content))
                        ELSE events
    /\ UNCHANGED <<rateVars, txtVars, frcVars, docVars, gen>>

\* app.py:317-326 and 404-414: the chat stream ends; the references event is yielded.
G_StreamEnd ==
    /\ gen.pc = "chat"
    /\ events' = Append(events, ReferencesEvent(gen.route, gen.relevant_chunks))
    /\ gen' = [gen EXCEPT !.pc = "done"]
    /\ UNCHANGED <<rateVars, txtVars, frcVars, docVars, arrived>>

\* app.py:306-315 raise (the chat call or a later fragment fails) and the
\* except clause, app.py:328-333 and 416-418, yields the error event.
G_Fail ==
    /\ gen.pc = "chat"
    /\ \E error_msg \in ErrorMessages :
          /\ events' = events \o ExceptEvents(gen.route, error_msg, gen.relevant_chunks)
          /\ gen' = [gen EXCEPT !.pc = "done", !.error = error_msg]
    /\ UNCHANGED <<rateVars, txtVars, frcVars, docVars, arrived>>

\* app.py:359: a concurrent upload adds a key while the multi-document
\* generator iterates the registry; the RuntimeError reaches the except clause.
G_IterationFail ==
    /\ gen.pc = "retrieve" /\ gen.route = "ask-multi"
    /\ LET error_msg == "dictionary changed size during iteration"
       IN  /\ events' = events \o ExceptEvents(gen.route, error_msg, << >>)
           /\ gen' = [gen EXCEPT !.pc = "done", !.error = error_msg]
    /\ UNCHANGED <<rateVars, txtVars, frcVars, docVars, arrived>>

NextStream ==
    \/ AskStream \/ AskMulti \/ G_Retrieve \/ G_IterationFail
    \/ G_Fragment \/ G_StreamEnd \/ G_Fail

SpecStream == InitStream /\ [][NextStream]_vars

Last(list) == list[Len(list)]

\* The contents of the token events, and of the fragments that carry one, in order.
TokenTexts == LET toks == SelectSeq(events, IsToken) IN [k \in 1..Len(toks) |-> toks[k].token]
ArrivedContents ==
    LET fs == SelectSeq(arrived, HasContent) IN [k \in 1..Len(fs) |-> fs[k].message.content]

TerminalPositions == {k \in 1..Len(events) : IsTerminal(events[k])}
NoMatchBranch == events # << >> /\ events[1] \in {TokenEvent(CannedStream), TokenEvent(CannedMulti)}

\* C2: token events come in the order the fragments arrive, and a finished
\* stream has exactly one terminal event (references/confidence or error,
\* never both), which is its last event.
C2_StreamShape ==
    /\ ~NoMatchBranch => TokenTexts = ArrivedContents
    /\ Cardinality(TerminalPositions) <= 1
    /\ TerminalPositions \subseteq {Len(events)}
    /\ gen.pc = "done" => Cardinality(TerminalPositions) = 1
    /\ gen.pc # "done" => TerminalPositions = {}

\* C2 witness: two tokens were forwarded and the chat service then failed.
C2_Witness ==
    /\ gen.pc = "done" /\ gen.error # ""
    /\ Len(TokenTexts) = 2 /\ TokenTexts[1] # TokenTexts[2]
    /\ IsError(Last(events))

\* C7: in both streaming variants a failure whose text contains "model" or
\* "not found" (any case) is reported as the model hint, any other failure
\* as the generic processing error.
C7_ModelHint ==
    (gen.pc = "done" /\ gen.error # "") =>
        Last(events) =
            IF IsModelError(gen.error)
            THEN [error |-> "Ollama model error: " \o gen.error]
            ELSE [error |-> "Error processing question: " \o gen.error]

AskedChunks == Lookup(documents_store, gen.doc_id).chunks

\* C10: /api/ask-stream on a document with at least one chunk never yields
\* the canned not-found token nor the empty low-confidence event, and a
\* stream that ends without error ends with 1 to 3 references and
\* confidence medium or high.
C10_NoMatchOnlyForEmptyDocument ==
    (gen.route = "ask-stream" /\ AskedChunks # << >>) =>
        /\ \A k \in 1..Len(events) :
              /\ events[k] # TokenEvent(CannedStream)
              /\ IsReferences(events[k]) =>
                    events[k].confidence # "low" /\ events[k].references # << >>
        /\ (gen.pc = "done" /\ gen.error = "") =>
              /\ IsReferences(Last(events))
              /\ Len(Last(events).references) \in 1..stream_top
              /\ Last(events).confidence \in {"medium", "high"}

\* C10 witness: no chunk of the document shares a word with the question or
\* contains one, and the stream has ended with references.
C10_Witness ==
    /\ gen.route = "ask-stream" /\ gen.pc = "done" /\ gen.error = ""
    /\ AskedChunks # << >>
    /\ \A k \in 1..Len(AskedChunks) : ~Qualifies(gen.question, AskedChunks[k])
    /\ IsReferences(Last(events))
====
